---- MODULE Spec2Model ----
(***************************************************************************)
(* State-machine model of src/scheduler.cpp: schedule() runs the           *)
(* topological canonicalizer, the ASAP pass, the ALAP pass and the list    *)
(* scheduler over a data-flow graph.  Delays and the clock period are      *)
(* counted in tenths of a time unit (0.3 is 3, 1.0 is 10).                 *)
(***************************************************************************)
EXTENDS Integers, Sequences, FiniteSets

\* ------------------------------------------------------------------ bounds
NumStmts == 3
MaxEdges == 2
MaxCycle == 8

Idx == 0 .. (NumStmts - 1)

\* ------------------------------------------------------------ input domain
\* The operation catalogue (vector<Op*> operations): latency, delay, limit.
Catalogue ==
  [ADD  |-> [latency |-> 0, delay |-> 3, limit |-> -1],
   MUL  |-> [latency |-> 1, delay |-> 6, limit |-> 1],
   DIV  |-> [latency |-> 2, delay |-> 3, limit |-> 1],
   MUL2 |-> [latency |-> 1, delay |-> 6, limit |-> 2],
   MAC2 |-> [latency |-> 2, delay |-> 3, limit |-> 2],
   DIV3 |-> [latency |-> 3, delay |-> 3, limit |-> 1]]

OpNames == DOMAIN Catalogue

\* The operations of the mixed DFGs: one combinational, two physical.
MixedOps == {"ADD", "MUL", "DIV"}

\* The physical operations of the single-kind DFGs: latency 1, 2 and 3 with
\* one or two units.
PhysicalOps == {"MUL", "DIV", "MUL2", "MAC2", "DIV3"}

\* Clock periods handed to schedule() as cycleTime.
Periods == {0, 5, 10}

Max(a, b) == IF a >= b THEN a ELSE b
Min(a, b) == IF a <= b THEN a ELSE b

RECURSIVE SetToSeq(_)
SetToSeq(S) ==
  IF S = {} THEN <<>>
  ELSE LET m == CHOOSE x \in S : \A y \in S : x <= y
       IN <<m>> \o SetToSeq(S \ {m})

SeqToSet(s) == {s[n] : n \in 1 .. Len(s)}

\* Edge sets of the DFGs handed to schedule(): pairs <<producer, consumer>>.
EdgeSets == {E \in SUBSET (Idx \X Idx) : Cardinality(E) <= MaxEdges}

\* deps[i]: the producers consumed by statement i.
DepsOf(E) == [i \in Idx |-> {j \in Idx : <<j, i>> \in E}]

\* uses[j]: the consumers reading statement j (the transpose of deps).
UsesOf(D) == [j \in Idx |-> {i \in Idx : j \in D[i]}]

InputGraphs == {DepsOf(E) : E \in EdgeSets}

VARIABLES
  pc,                  \* position in schedule()
  dfgDeps,             \* the DFG's edges as presented (never mutated)
  stmts,               \* dataFlowGraph->stmts: position -> statement object
  idx,                 \* Stmt::idx, per statement object
  op,                  \* Stmt::op (name of the catalogue record), per object
  start_cycle,         \* Stmt::start_cycle, per statement object
  dependencies,        \* vec2d<int> dependencies
  usage_links,         \* vec2d<int> usage_links
  time_period,         \* double time_period
  asapLatency,         \* value returned by scheduleASAP
  latency,             \* the local `latency` of schedule()
  priority,            \* scheduleByList: vector<int> priority
  completedStatements, \* scheduleByList: set<int>
  notReady,            \* scheduleByList: set<int>
  readyQueue,          \* scheduleByList: priority_queue contents
  delayByCycle,        \* scheduleByList: the delay ledger
  currentCycle,        \* scheduleByList: int currentCycle
  scheduled,           \* scheduleByList: vector<int> scheduled (this cycle)
  popped               \* scheduleByList: int idx of the drain loop body

vars == <<pc, dfgDeps, stmts, idx, op, start_cycle, dependencies, usage_links,
          time_period, asapLatency, latency, priority, completedStatements,
          notReady, readyQueue, delayByCycle, currentCycle, scheduled, popped>>

dfgVars == <<dfgDeps, op, time_period>>
listVars == <<priority, completedStatements, notReady, readyQueue,
              delayByCycle, currentCycle, scheduled, popped>>

OpOf(o) == Catalogue[op[o]]

\* schedule(): globals set, get_deps_and_uses called; idx is the position.
Init ==
  /\ pc = "canonicalize"
  /\ dfgDeps \in InputGraphs
  /\ op \in [Idx -> MixedOps]
  /\ time_period \in Periods
  /\ stmts = [i \in Idx |-> i]
  /\ idx = [o \in Idx |-> o]
  /\ start_cycle = [o \in Idx |-> 0]
  /\ dependencies = [i \in Idx |-> SetToSeq(dfgDeps[i])]
  /\ usage_links = [i \in Idx |-> SetToSeq(UsesOf(dfgDeps)[i])]
  /\ asapLatency = 0
  /\ latency = 0
  /\ priority = [i \in Idx |-> 0]
  /\ completedStatements = {}
  /\ notReady = {}
  /\ readyQueue = {}
  /\ delayByCycle = [p \in {} |-> 0]
  /\ currentCycle = 0
  /\ scheduled = <<>>
  /\ popped = -1

\* validateTopologicalOrder with the comparison turned around.
validateTopologicalOrderInverted ==
  \A i \in Idx : \A n \in 1 .. Len(dependencies[idx[stmts[i]]]) :
     ~(dependencies[idx[stmts[i]]][n] < idx[stmts[i]])

\* ------------------------------------------------------------ canonicalizer
validateTopologicalOrder ==
  \A i \in Idx : \A n \in 1 .. Len(dependencies[idx[stmts[i]]]) :
     ~(dependencies[idx[stmts[i]]][n] > idx[stmts[i]])

\* incomingEdges after the counting loop.
IncomingEdges == [i \in Idx |-> Len(dependencies[i])]

\* The inner for loop of the Kahn while loop, over usage_links[current].
RECURSIVE Relax(_, _, _)
Relax(succs, indeg, queue) ==
  IF succs = <<>> THEN [indeg |-> indeg, queue |-> queue]
  ELSE LET s == Head(succs)
           d == [indeg EXCEPT ![s] = @ - 1]
       IN Relax(Tail(succs), d, IF d[s] = 0 THEN Append(queue, s) ELSE queue)

RECURSIVE KahnLoop(_, _, _)
KahnLoop(queue, indeg, order) ==
  IF queue = <<>> THEN order
  ELSE LET current == Head(queue)
           r == Relax(usage_links[current], indeg, Tail(queue))
       IN KahnLoop(r.queue, r.indeg, Append(order, current))

\* sortedOrder when the while loop ends (1-based sequence of old indices).
SortedOrder ==
  KahnLoop(SetToSeq({i \in Idx : IncomingEdges[i] = 0}), IncomingEdges, <<>>)

\* Reordered with sortedOrder read from its far end.
ReorderedBackwards(order) == [i \in Idx |-> stmts[order[NumStmts - i]]]

\* reorderedStatements: new position -> statement object.
Reordered(order) == [i \in Idx |-> stmts[order[i + 1]]]

\* idx of every object after `reorderedStatements[i]->idx = i`.
ReorderedIdx(order) ==
  [o \in Idx |-> CHOOSE i \in Idx : Reordered(order)[i] = o]

\* One rewritten adjacency row: each entry e becomes reorderedStatements[e]->idx,
\* read after the idx fields were reassigned (newIdx).
RewriteRow(row, reordered, newIdx) ==
  [n \in 1 .. Len(row) |-> newIdx[reordered[row[n]]]]

Canonicalize ==
  /\ pc = "canonicalize"
  /\ IF validateTopologicalOrder
     THEN /\ pc' = "asap"
          /\ UNCHANGED <<stmts, idx, dependencies, usage_links>>
     ELSE \E order \in {SortedOrder} :
          IF Len(order) < NumStmts
          THEN /\ pc' = "cycleError"
               /\ UNCHANGED <<stmts, idx, dependencies, usage_links>>
          ELSE \E reordered \in {Reordered(order)},
                  newIdx \in {ReorderedIdx(order)} :
               /\ pc' = "asap"
               /\ stmts' = reordered
               /\ idx' = newIdx
               /\ dependencies' =
                    [i \in Idx |->
                       RewriteRow(dependencies[order[i + 1]], reordered, newIdx)]
               /\ usage_links' =
                    [i \in Idx |->
                       RewriteRow(usage_links[order[i + 1]], reordered, newIdx)]
  /\ UNCHANGED <<dfgVars, start_cycle, asapLatency, latency, listVars>>

\* ------------------------------------------------------------------- ASAP
Busy(o) == Max(OpOf(o).latency - 1, 0)

\* Mutant of AsapPreds: the successor starts two cycles after the completion.
RECURSIVE AsapPredsLate(_, _, _)
AsapPredsLate(sc, o, preds) ==
  IF preds = <<>> THEN sc
  ELSE LET predecessor == stmts[Head(preds)]
           predecessorCompletion == sc[predecessor] + Busy(predecessor)
       IN AsapPredsLate([sc EXCEPT ![o] = Max(@, predecessorCompletion + 2)],
                        o, Tail(preds))

\* The inner loop over dependencies[statement->idx] for statement object o.
RECURSIVE AsapPreds(_, _, _)
AsapPreds(sc, o, preds) ==
  IF preds = <<>> THEN sc
  ELSE LET predecessor == stmts[Head(preds)]
           predecessorCompletion == sc[predecessor] + Busy(predecessor)
       IN AsapPreds([sc EXCEPT ![o] = Max(@, predecessorCompletion + 1)],
                    o, Tail(preds))

\* The body of the statement loop for the statement at position i.
AsapStmt(sc, i) ==
  LET o == stmts[i] IN
  IF dependencies[idx[o]] = <<>> THEN [sc EXCEPT ![o] = 1]
  ELSE AsapPreds(sc, o, dependencies[idx[o]])

\* The statement loop from position i on; r.sc is start_cycle, r.lat is
\* maximumLatency.
RECURSIVE AsapFrom(_, _)
AsapFrom(r, i) ==
  IF i >= NumStmts THEN r
  ELSE LET sc == AsapStmt(r.sc, i)
       IN AsapFrom([sc |-> sc,
                    lat |-> Max(r.lat, sc[stmts[i]] + Busy(stmts[i]))], i + 1)

AsapResult == AsapFrom([sc |-> [o \in Idx |-> 0], lat |-> 0], 0)

scheduleASAP ==
  /\ pc = "asap"
  /\ \E r \in {AsapResult} :
       /\ start_cycle' = r.sc
       /\ asapLatency' = r.lat
       /\ latency' = r.lat
  /\ pc' = "alap"
  /\ UNCHANGED <<dfgVars, stmts, idx, dependencies, usage_links, listVars>>

\* ------------------------------------------------------------------- ALAP
\* The inner loop over usage_links[statement->idx]: latestStart.
RECURSIVE AlapSuccs(_, _, _, _)
AlapSuccs(sc, o, succs, latestStart) ==
  IF succs = <<>> THEN latestStart
  ELSE LET successor == stmts[Head(succs)]
       IN AlapSuccs(sc, o, Tail(succs),
                    Min(latestStart, sc[successor] - Max(OpOf(o).latency, 1)))

\* The reverse statement loop from position i down; r.sc is start_cycle,
\* r.earliest is earliestCycle.
RECURSIVE AlapFrom(_, _, _)
AlapFrom(r, i, deadline) ==
  IF i < 0 THEN r
  ELSE LET o == stmts[i] IN
       IF usage_links[idx[o]] = <<>>
       THEN AlapFrom([r EXCEPT !.sc[o] = deadline - Busy(o)], i - 1, deadline)
       ELSE LET latestStart == AlapSuccs(r.sc, o, usage_links[idx[o]], deadline)
            IN AlapFrom([sc |-> [r.sc EXCEPT ![o] = latestStart],
                         earliest |-> Min(r.earliest, latestStart)],
                        i - 1, deadline)

AlapRaw(deadline) ==
  AlapFrom([sc |-> [o \in Idx |-> 0], earliest |-> deadline],
           NumStmts - 1, deadline)

\* start_cycle after the shift by earliestCycle - 1, r being the result of
\* the reverse loop.
AlapShifted(r) == [o \in Idx |-> r.sc[o] - (r.earliest - 1)]

RECURSIVE MaxOver(_, _)
MaxOver(f, S) ==
  IF S = {} THEN 0
  ELSE LET x == CHOOSE y \in S : TRUE IN Max(f[x], MaxOver(f, S \ {x}))

\* max over statements of start_cycle + max(latency - 1, 0), from 0.
ScheduleLatency(sc) == MaxOver([o \in Idx |-> sc[o] + Busy(o)], Idx)

scheduleALAP ==
  /\ pc = "alap"
  /\ \E shifted \in {AlapShifted(AlapRaw(latency))} :
       /\ start_cycle' = shifted
       /\ latency' = ScheduleLatency(shifted)
  /\ pc' = "listInit"
  /\ UNCHANGED <<dfgVars, stmts, idx, dependencies, usage_links, asapLatency,
                 listVars>>

\* --------------------------------------------------------- list scheduler
ListInit ==
  /\ pc = "listInit"
  /\ priority' = [i \in Idx |-> start_cycle[stmts[i]]]
  /\ start_cycle' = [o \in Idx |-> 0]
  /\ completedStatements' = {}
  /\ notReady' = {i \in Idx : dependencies[i] # <<>>}
  /\ readyQueue' = {i \in Idx : dependencies[i] = <<>>}
  /\ delayByCycle' = [p \in {} |-> 0]
  /\ currentCycle' = 1
  /\ scheduled' = <<>>
  /\ popped' = -1
  /\ pc' = "drain"
  /\ UNCHANGED <<dfgVars, stmts, idx, dependencies, usage_links, asapLatency,
                 latency>>

\* comparator with the priority test turned around.
comparatorLargestFirst(a, b) ==
  IF priority[a] = priority[b]
  THEN OpOf(stmts[a]).delay > OpOf(stmts[b]).delay
  ELSE priority[a] < priority[b]

\* comparator(a, b): a is ordered below b in the priority queue.
comparator(a, b) ==
  IF priority[a] = priority[b]
  THEN OpOf(stmts[a]).delay > OpOf(stmts[b]).delay
  ELSE priority[a] > priority[b]

\* The indices readyQueue.top() can return: those ordered below no other.
\* Which of several equivalent ones comes out is the heap's choice.
TopOf(Q) == {a \in Q : \A b \in Q : ~comparator(a, b)}

\* delayByCycle[c][i], 0 when absent.
DelayAt(d, c, i) == IF <<c, i>> \in DOMAIN d THEN d[<<c, i>>] ELSE 0

DelayPut(d, c, i, v) ==
  [p \in (DOMAIN d) \cup {<<c, i>>} |-> IF p = <<c, i>> THEN v ELSE d[p]]

\* A unit counted as busy in its start cycle only.
calculateResourceUsageStartOnly(sc, cycle, name) ==
  IF Catalogue[name].limit < 0 THEN -2
  ELSE Cardinality({o \in Idx :
         /\ sc[o] # 0
         /\ op[o] = name
         /\ cycle = sc[o]})

\* calculateResourceUsage(cycle, operation) over the start cycles sc.
calculateResourceUsage(sc, cycle, name) ==
  IF Catalogue[name].limit < 0 THEN -2
  ELSE Cardinality({o \in Idx :
         /\ sc[o] # 0
         /\ op[o] = name
         /\ cycle >= sc[o]
         /\ cycle < sc[o] + OpOf(o).latency})

\* Pop: idx = readyQueue.top(); readyQueue.pop().
Pop ==
  /\ pc = "drain"
  /\ readyQueue # {}
  /\ \E i \in TopOf(readyQueue) :
       /\ popped' = i
       /\ readyQueue' = readyQueue \ {i}
  /\ pc' = "attempt"
  /\ UNCHANGED <<dfgVars, stmts, idx, start_cycle, dependencies, usage_links,
                 asapLatency, latency, priority, completedStatements, notReady,
                 delayByCycle, currentCycle, scheduled>>

\* Mutant of FitsBudget: the budget is never tested.
FitsBudgetAlways(i) == OpOf(stmts[i]).delay >= 0

\* The budget test of a combinational statement: delay + usedDelay <= T.
FitsBudget(i) ==
  OpOf(stmts[i]).delay + DelayAt(delayByCycle, currentCycle, i) <= time_period

\* The ledger loop of a scheduled combinational statement i; usedDelay is a
\* reference into the ledger and is read again at every iteration.
RECURSIVE CombSeed(_, _, _)
CombSeed(d, i, succs) ==
  IF succs = <<>> THEN d
  ELSE LET k == idx[stmts[Head(succs)]]
           v == Max(DelayAt(d, currentCycle, k),
                    DelayAt(d, currentCycle, i) + OpOf(stmts[i]).delay)
       IN CombSeed(DelayPut(d, currentCycle, k, v), i, Tail(succs))

\* The ledger loop of a scheduled physical statement i.
RECURSIVE PhysSeed(_, _, _)
PhysSeed(d, i, succs) ==
  IF succs = <<>> THEN d
  ELSE LET successor == stmts[Head(succs)]
           c == currentCycle + OpOf(stmts[i]).latency - 1
       IN IF OpOf(successor).limit < 0
          THEN PhysSeed(DelayPut(d, c, idx[successor],
                          Max(DelayAt(d, c, idx[successor]), OpOf(stmts[i]).delay)),
                        i, Tail(succs))
          ELSE PhysSeed(d, i, Tail(succs))

\* Mutant of UnitFree: the limit is compared with <= instead of <.
UnitFreeLax(i) ==
  calculateResourceUsage(start_cycle, currentCycle, op[stmts[i]])
    <= OpOf(stmts[i]).limit

\* The resource test of a physical statement.
UnitFree(i) ==
  calculateResourceUsage(start_cycle, currentCycle, op[stmts[i]])
    < OpOf(stmts[i]).limit

attemptFrame == <<dfgVars, stmts, idx, dependencies, usage_links, asapLatency,
                  latency, priority, completedStatements, notReady, currentCycle>>

ScheduleComb ==
  /\ pc = "attempt"
  /\ OpOf(stmts[popped]).limit < 0
  /\ FitsBudget(popped)
  /\ start_cycle' = [start_cycle EXCEPT ![stmts[popped]] = currentCycle]
  /\ scheduled' = Append(scheduled, popped)
  /\ delayByCycle' = CombSeed(delayByCycle, popped, usage_links[popped])
  /\ popped' = -1
  /\ pc' = "drain"
  /\ UNCHANGED <<attemptFrame, readyQueue>>

DeferComb ==
  /\ pc = "attempt"
  /\ OpOf(stmts[popped]).limit < 0
  /\ ~FitsBudget(popped)
  /\ readyQueue' = readyQueue \cup {popped}
  /\ popped' = -1
  /\ pc' = "drain"
  /\ UNCHANGED <<attemptFrame, start_cycle, scheduled, delayByCycle>>

SchedulePhys ==
  /\ pc = "attempt"
  /\ OpOf(stmts[popped]).limit >= 0
  /\ UnitFree(popped)
  /\ start_cycle' = [start_cycle EXCEPT ![stmts[popped]] = currentCycle]
  /\ scheduled' = Append(scheduled, popped)
  /\ delayByCycle' = PhysSeed(delayByCycle, popped, usage_links[popped])
  /\ popped' = -1
  /\ pc' = "drain"
  /\ UNCHANGED <<attemptFrame, readyQueue>>

BlockPhys ==
  /\ pc = "attempt"
  /\ OpOf(stmts[popped]).limit >= 0
  /\ ~UnitFree(popped)
  /\ readyQueue' = readyQueue \cup {popped}
  /\ popped' = -1
  /\ pc' = "commit"
  /\ UNCHANGED <<attemptFrame, start_cycle, scheduled, delayByCycle>>

\* Mutant of IsReady: the completion test is off by one cycle.
IsReadyEarly(i, completed) ==
  \A n \in 1 .. Len(dependencies[i]) :
     LET dep == dependencies[i][n]
         pred == stmts[dep]
     IN ~(\/ dep \notin completed
          \/ (start_cycle[pred] + Max(OpOf(pred).latency, 1)) > (currentCycle + 2))

\* isReady of the promotion loop, given the completed set.
IsReady(i, completed) ==
  \A n \in 1 .. Len(dependencies[i]) :
     LET dep == dependencies[i][n]
         pred == stmts[dep]
     IN ~(\/ dep \notin completed
          \/ (start_cycle[pred] + Max(OpOf(pred).latency, 1)) > (currentCycle + 1))

\* Mutant of LoopContinues: the loop exits one statement short.
LoopContinuesShort(completed) == Cardinality(completed) < NumStmts - 1

\* The test of the per-cycle loop: completedStatements.size() < statements.size().
LoopContinues(completed) == Cardinality(completed) < NumStmts

\* Commit, promote, advance; then the loop test and, on exit, finalLatency.
EndCycle ==
  /\ \/ pc = "commit"
     \/ pc = "drain" /\ readyQueue = {}
  /\ currentCycle < MaxCycle
  /\ LET completed == completedStatements \cup SeqToSet(scheduled)
         promoted == {i \in notReady : IsReady(i, completed)}
     IN /\ completedStatements' = completed
        /\ readyQueue' = readyQueue \cup promoted
        /\ notReady' = notReady \ promoted
        /\ IF LoopContinues(completed)
           THEN pc' = "drain" /\ latency' = latency
           ELSE pc' = "done" /\ latency' = ScheduleLatency(start_cycle)
  /\ currentCycle' = currentCycle + 1
  /\ scheduled' = <<>>
  /\ UNCHANGED <<dfgVars, stmts, idx, start_cycle, dependencies, usage_links,
                 asapLatency, priority, delayByCycle, popped>>

Next ==
  \/ Canonicalize
  \/ scheduleASAP
  \/ scheduleALAP
  \/ ListInit
  \/ Pop
  \/ ScheduleComb
  \/ DeferComb
  \/ SchedulePhys
  \/ BlockPhys
  \/ EndCycle

Spec == Init /\ [][Next]_vars

\* ------------------------------------------------------------------ claims
\* Positions in scheduleByList, from the first cycle of the loop to its return.
ListPcs == {"drain", "attempt", "commit", "done"}

\* start_cycle of the statement at index i.
StartAt(i) == start_cycle[stmts[i]]
LatencyAt(i) == OpOf(stmts[i]).latency

\* C1: in the final list schedule, every statement i and every j in
\* dependencies[i] satisfy
\* start_cycle[i] >= start_cycle[j] + max(latency[j], 1) - [latency[j] = 0].
C1_Precedence ==
  pc = "done" =>
    \A i \in Idx : \A j \in SeqToSet(dependencies[i]) :
       StartAt(i) >= StartAt(j) + Max(LatencyAt(j), 1)
                       - (IF LatencyAt(j) = 0 THEN 1 ELSE 0)

\* C1 witness: a final schedule holding a consumer that starts exactly when
\* its two-cycle producer retires, and a consumer of a latency-0 producer.
C1_Witness ==
  /\ pc = "done"
  /\ \E i \in Idx : \E j \in SeqToSet(dependencies[i]) :
       LatencyAt(j) = 2 /\ StartAt(i) = StartAt(j) + 2
  /\ \E i \in Idx : \E j \in SeqToSet(dependencies[i]) : LatencyAt(j) = 0

\* Statements of kind `name` whose busy interval [start, start + latency)
\* holds cycle c.
BusyAt(name, c) ==
  {o \in Idx : /\ op[o] = name
               /\ start_cycle[o] >= 1
               /\ start_cycle[o] <= c
               /\ c < start_cycle[o] + OpOf(o).latency}

\* C2: in every state of the list scheduler and in the final schedule, for
\* every kind with limit >= 0 and every cycle c (later than currentCycle
\* too), at most limit statements of the kind are busy in c.
C2_ResourceBound ==
  pc \in ListPcs =>
    \A name \in OpNames : \A c \in 1 .. (MaxCycle + 2) :
       Catalogue[name].limit >= 0 =>
         Cardinality(BusyAt(name, c)) <= Catalogue[name].limit

\* C2 witness: a unit is held in a cycle after currentCycle while another
\* statement of the same kind waits in the ready queue.
C2_Witness ==
  /\ pc = "commit"
  /\ \E name \in OpNames :
       /\ Catalogue[name].limit >= 0
       /\ Cardinality(BusyAt(name, currentCycle + 1)) = Catalogue[name].limit
       /\ \E i \in readyQueue : op[stmts[i]] = name

\* A step of the list scheduler leaves every nonzero start_cycle alone and
\* sets a start_cycle only to the cycle being drained.
WritesOnce ==
  pc \in ListPcs =>
    \A o \in Idx :
       /\ (start_cycle[o] # 0 => start_cycle'[o] = start_cycle[o])
       /\ (start_cycle'[o] # start_cycle[o] =>
             (start_cycle'[o] = currentCycle /\ currentCycle >= 1))

\* C3: a start_cycle set by the list scheduler is never rewritten, it is set
\* to the cycle being drained, and when the loop exits every statement has
\* start_cycle >= 1.
C3_ScheduledOnce ==
  [](pc = "done" => \A o \in Idx : start_cycle[o] >= 1) /\ [][WritesOnce]_vars

\* C3 witness: the loop has exited with statements scheduled in three
\* different cycles.
C3_Witness ==
  /\ pc = "done"
  /\ Cardinality({start_cycle[o] : o \in Idx}) >= 3

\* What is left of S after repeatedly removing the statements none of whose
\* producers (in the graph D) is left.
RECURSIVE Peel(_, _)
Peel(D, S) ==
  LET free == {i \in S : D[i] \cap S = {}}
  IN IF free = {} THEN S ELSE Peel(D, S \ free)

\* The dependency relation D has no cycle.
Acyclic(D) == Peel(D, Idx) = {}

\* The dependency relation of the DFG as presented has no cycle.
InputAcyclic == Acyclic(dfgDeps)

\* The canonicalizer has returned normally.
Canonicalized == pc \notin {"canonicalize", "cycleError"}

\* C4: after the canonicalizer returns normally on an acyclic DFG, every j in
\* dependencies[i] is smaller than i.
C4_TopologicalAfterCanon ==
  (Canonicalized /\ InputAcyclic) =>
    \A i \in Idx : \A j \in SeqToSet(dependencies[i]) : j < i

\* The chain 0 -> 1 -> ... of combinational ADD statements (delay 0.3 each)
\* under clock period 1.0.
ChainInput ==
  /\ dfgDeps = [i \in Idx |-> IF i = 0 THEN {} ELSE {i - 1}]
  /\ \A o \in Idx : op[o] = "ADD"
  /\ time_period = 10

\* C5: the list scheduler places the whole combinational chain A -> B -> C
\* (delay 0.3 each, T = 1.0) in cycle 1 and returns latency 1.
C5_ChainSharesCycle ==
  (pc = "done" /\ ChainInput) =>
    (latency = 1 /\ \A o \in Idx : start_cycle[o] = 1)

\* Largest sum of op.delay along a chain of at most n + 1 combinational
\* statements that ends in index i, follows dependencies and lies wholly in
\* cycle c.
RECURSIVE ChainDelay(_, _, _)
ChainDelay(i, c, n) ==
  LET prev == {j \in SeqToSet(dependencies[i]) :
                 OpOf(stmts[j]).limit < 0 /\ StartAt(j) = c}
  IN OpOf(stmts[i]).delay
       + (IF n = 0 \/ prev = {} THEN 0
          ELSE MaxOver([j \in prev |-> ChainDelay(j, c, n - 1)], prev))

C8_FinalAtLeastAsap == pc = "done" => latency >= asapLatency

\* C8 witness: a DFG in topological index order, with an edge, whose final
\* schedule resource contention made strictly longer than its ASAP schedule.
C8_Witness ==
  /\ pc = "done"
  /\ latency > asapLatency
  /\ \E i \in Idx : dependencies[i] # <<>>
  /\ \A i \in Idx : \A j \in SeqToSet(dependencies[i]) : j < i

\* C9: a DFG whose dependency relation has a cycle ends in the canonicalizer's
\* error and none of the ASAP, ALAP or list passes runs.
C9_CycleDetected == ~InputAcyclic => pc \in {"canonicalize", "cycleError"}

\* clock_period <= 0, or some statement's op.delay > clock_period.
InvalidConfig ==
  \/ time_period <= 0
  \/ \E o \in Idx : OpOf(o).delay > time_period

\* C10: with an invalid configuration schedule() does not return a latency.
C10_InvalidConfigReported == InvalidConfig => pc # "done"

\* A DFG and a configuration the data model allows: acyclic, clock_period > 0,
\* every op.delay <= clock_period.
WellFormedInput == InputAcyclic /\ ~InvalidConfig

\* Init restricted to the well-formed inputs.
WellFormedInit ==
  /\ pc = "canonicalize"
  /\ dfgDeps \in {D \in InputGraphs : Acyclic(D)}
  /\ time_period \in {T \in Periods : T > 0}
  /\ op \in {A \in [Idx -> MixedOps] :
               \A o \in Idx : Catalogue[A[o]].delay <= time_period}
  /\ stmts = [i \in Idx |-> i]
  /\ idx = [o \in Idx |-> o]
  /\ start_cycle = [o \in Idx |-> 0]
  /\ dependencies = [i \in Idx |-> SetToSeq(dfgDeps[i])]
  /\ usage_links = [i \in Idx |-> SetToSeq(UsesOf(dfgDeps)[i])]
  /\ asapLatency = 0
  /\ latency = 0
  /\ priority = [i \in Idx |-> 0]
  /\ completedStatements = {}
  /\ notReady = {}
  /\ readyQueue = {}
  /\ delayByCycle = [p \in {} |-> 0]
  /\ currentCycle = 0
  /\ scheduled = <<>>
  /\ popped = -1

\* schedule() on the well-formed inputs only.  It is a sequential program: it
\* always takes its next step.
FairSpec == WellFormedInit /\ [][Next]_vars /\ WF_vars(Next)

\* C6: on every well-formed input the per-cycle loop of the list scheduler
\* eventually exits and schedule() returns.  A run that is still advancing
\* currentCycle at MaxCycle is counted as if it had returned, so that only a
\* run that never leaves one cycle of the loop refutes the statement.
C6_Terminates == <>(pc = "done" \/ currentCycle = MaxCycle)

\* ---------------------------------------------------- resource contention
\* schedule() on NumStmts independent statements that all carry one physical
\* operation.
ContentionInit ==
  /\ pc = "canonicalize"
  /\ dfgDeps = [i \in Idx |-> {}]
  /\ time_period \in Periods
  /\ op \in {[o \in Idx |-> name] : name \in PhysicalOps}
  /\ stmts = [i \in Idx |-> i]
  /\ idx = [o \in Idx |-> o]
  /\ start_cycle = [o \in Idx |-> 0]
  /\ dependencies = [i \in Idx |-> SetToSeq(dfgDeps[i])]
  /\ usage_links = [i \in Idx |-> SetToSeq(UsesOf(dfgDeps)[i])]
  /\ asapLatency = 0
  /\ latency = 0
  /\ priority = [i \in Idx |-> 0]
  /\ completedStatements = {}
  /\ notReady = {}
  /\ readyQueue = {}
  /\ delayByCycle = [p \in {} |-> 0]
  /\ currentCycle = 0
  /\ scheduled = <<>>
  /\ popped = -1

\* The steps schedule() takes on such a DFG: no statement is combinational.
ContentionNext ==
  \/ Canonicalize
  \/ scheduleASAP
  \/ scheduleALAP
  \/ ListInit
  \/ Pop
  \/ SchedulePhys
  \/ BlockPhys
  \/ EndCycle

ContentionSpec == ContentionInit /\ [][ContentionNext]_vars

\* The DFG has no edge and every statement carries the same physical
\* operation, of latency >= 1 and limit >= 1.
SingleKind ==
  /\ \A i \in Idx : dfgDeps[i] = {}
  /\ \A o \in Idx : op[o] = op[0]
  /\ Catalogue[op[0]].latency >= 1
  /\ Catalogue[op[0]].limit >= 1

\* The statements started by the list scheduler in cycle c, before cycle c.
StartedIn(c) == {o \in Idx : start_cycle[o] = c}
StartedBefore(c) == {o \in Idx : start_cycle[o] # 0 /\ start_cycle[o] < c}

CeilDiv(a, b) == (a + b - 1) \div b

\* C11: with k independent statements of one physical operation of latency l
\* and limit m, every finished cycle 1, 1+l, 1+2l, ... started exactly
\* min(m, remaining) statements, every other finished cycle started none, and
\* the returned latency is ceil(k/m) * l.
C11_Contention ==
  (pc \in ListPcs /\ SingleKind) =>
    LET l == Catalogue[op[0]].latency
        m == Catalogue[op[0]].limit
    IN /\ \A c \in 1 .. (currentCycle - 1) :
            Cardinality(StartedIn(c)) =
              IF (c - 1) % l = 0
              THEN Min(m, NumStmts - Cardinality(StartedBefore(c)))
              ELSE 0
       /\ pc = "done" => latency = CeilDiv(NumStmts, m) * l

\* A contended run has returned: two units served two statements in cycle 1
\* and the rest one latency later.
C11_Witness ==
  /\ pc = "done"
  /\ SingleKind
  /\ Catalogue[op[0]].limit = 2
  /\ Cardinality(StartedIn(1)) = 2
  /\ Cardinality(StartedIn(1 + Catalogue[op[0]].latency)) = NumStmts - 2
  /\ latency = CeilDiv(NumStmts, 2) * Catalogue[op[0]].latency

\* Some statement of the DFG as presented consumes a later one, so the fast
\* path is not taken and the Kahn sort runs.
InputOutOfOrder == \E i \in Idx : \E j \in dfgDeps[i] : j > i

\* C12: when the Kahn sort runs on an acyclic DFG, the renumbered sequence is a
\* permutation of the statement objects, the statement at position i has
\* idx = i, and every edge producer -> consumer of the DFG as presented has
\* the producer's new idx below the consumer's.
C12_KahnRenumbering ==
  (Canonicalized /\ InputAcyclic /\ InputOutOfOrder) =>
    /\ {stmts[i] : i \in Idx} = Idx
    /\ \A i \in Idx : idx[stmts[i]] = i
    /\ \A consumer \in Idx : \A producer \in dfgDeps[consumer] :
         idx[producer] < idx[consumer]

\* The sort has run and moved a statement that has both a producer and a
\* consumer.
C12_Witness ==
  /\ pc = "asap"
  /\ InputAcyclic
  /\ InputOutOfOrder
  /\ \E o \in Idx : idx[o] # o /\ dfgDeps[o] # {} /\ UsesOf(dfgDeps)[o] # {}

\* dependencies is in topological index order: the DFG is canonicalized.
DepsInOrder == \A i \in Idx : \A j \in SeqToSet(dependencies[i]) : j < i

\* Start cycles by statement index.
Starts == [i \in Idx |-> StartAt(i)]

\* The assignment f (by statement index) starts every statement at cycle 1 or
\* later and satisfies f[i] >= f[j] + max(latency[j], 1) on every edge.
ValidStarts(f) ==
  \A i \in Idx :
    /\ f[i] >= 1
    /\ \A j \in SeqToSet(dependencies[i]) : f[i] >= f[j] + Max(LatencyAt(j), 1)

\* C13: when the ASAP pass returns on a canonicalized DFG, start_cycle[i] is 1
\* if dependencies[i] is empty and otherwise the maximum over its producers j
\* of start_cycle[j] + max(latency[j] - 1, 0) + 1; the assignment is valid and
\* no valid assignment starts any statement earlier; and the returned latency
\* is the maximum of start_cycle[i] + max(latency[i] - 1, 0).
C13_AsapLeast ==
  (pc = "alap" /\ DepsInOrder) =>
    /\ \A i \in Idx :
         Starts[i] =
           IF dependencies[i] = <<>> THEN 1
           ELSE MaxOver([j \in Idx |-> Starts[j] + Busy(stmts[j]) + 1],
                        SeqToSet(dependencies[i]))
    /\ ValidStarts(Starts)
    /\ \A f \in [Idx -> 1 .. asapLatency] :
         ValidStarts(f) => \A i \in Idx : Starts[i] <= f[i]
    /\ asapLatency =
         MaxOver([i \in Idx |-> Starts[i] + Busy(stmts[i])], Idx)

\* The ASAP pass has returned on a DFG whose statement 2 waits for a
\* multi-cycle producer and for a second producer.
C13_Witness ==
  /\ pc = "alap"
  /\ DepsInOrder
  /\ Len(dependencies[2]) = 2
  /\ \E j \in SeqToSet(dependencies[2]) : LatencyAt(j) = 2 /\ Starts[2] = Starts[j] + 2

\* C14: when the ALAP pass returns on a canonicalized DFG, the minimum of
\* start_cycle over all statements, sinks included, is exactly 1.
C14_AlapMinStartIsOne ==
  (pc = "listInit" /\ DepsInOrder) =>
    /\ \A o \in Idx : start_cycle[o] >= 1
    /\ \E o \in Idx : start_cycle[o] = 1

\* Within the drain of a cycle, every statement scheduled in this cycle has an
\* ALAP key no larger than that of any statement still waiting in the ready
\* queue or just popped.
ScheduledBeforeWaiting ==
  pc \in {"drain", "attempt", "commit"} =>
    \A s \in SeqToSet(scheduled) :
      \A b \in readyQueue \cup (IF pc = "attempt" THEN {popped} ELSE {}) :
         priority[s] <= priority[b]

\* A popped physical statement whose operation is at its limit ends the drain,
\* and once the drain has ended the next step schedules nothing and advances
\* the cycle.
StopsAtLimit ==
  /\ (/\ pc = "attempt"
      /\ OpOf(stmts[popped]).limit >= 0
      /\ Cardinality(BusyAt(op[stmts[popped]], currentCycle))
           >= OpOf(stmts[popped]).limit)
     => (pc' = "commit" /\ start_cycle' = start_cycle)
  /\ pc = "commit" =>
       (start_cycle' = start_cycle /\ currentCycle' = currentCycle + 1)

\* C15: within a cycle no statement is scheduled while a ready statement with
\* a strictly smaller ALAP key is left unscheduled, the drain stops at the
\* first popped physical statement whose operation is at its limit, and after
\* that nothing further is scheduled in the cycle.
C15_PriorityOrder == []ScheduledBeforeWaiting /\ [][StopsAtLimit]_vars

\* A drain has stopped at a blocked physical statement after scheduling
\* another one, and a combinational statement of larger key that would fit
\* the cycle is left in the ready queue.
C15_Witness ==
  /\ pc = "commit"
  /\ scheduled # <<>>
  /\ \E a \in readyQueue, b \in readyQueue :
       /\ OpOf(stmts[a]).limit >= 0
       /\ ~UnitFree(a)
       /\ OpOf(stmts[b]).limit < 0
       /\ FitsBudget(b)
       /\ priority[a] < priority[b]

\* C16: the statement popped from the ready queue has the largest op.delay
\* among the ready statements that share its ALAP key.
C16_TieBreakLargerDelay ==
  pc = "attempt" =>
    \A b \in readyQueue :
       priority[b] = priority[popped] =>
         OpOf(stmts[b]).delay <= OpOf(stmts[popped]).delay

\* A combinational statement has been popped and does not fit the budget of
\* the current cycle.
Overflow ==
  /\ pc = "attempt"
  /\ OpOf(stmts[popped]).limit < 0
  /\ ~FitsBudget(popped)

\* The drain of the current cycle is over: it was left by break, or the ready
\* queue ran empty.
DrainEnded == pc = "commit" \/ (pc = "drain" /\ readyQueue = {})

\* C17: after a combinational statement popped in cycle c did not fit the
\* budget, the drain of cycle c ends after finitely many pops (and the loop
\* goes on to advance currentCycle).
C17_DeferredToNextCycle == Overflow ~> DrainEnded

\* No statement has been scheduled in cycle c.
IdleCycle(c) == \A o \in Idx : start_cycle[o] # c

\* The cycle being completed and the one before it scheduled nothing, and
\* not_ready is non-empty.
NoProgressTwice ==
  /\ DrainEnded
  /\ currentCycle >= 2
  /\ IdleCycle(currentCycle)
  /\ IdleCycle(currentCycle - 1)
  /\ notReady # {}

\* After two consecutive cycles without progress the loop does not advance
\* currentCycle.
StuckGuard == NoProgressTwice => currentCycle' = currentCycle

\* C18: when the per-cycle loop completes two consecutive cycles in which no
\* statement is scheduled while not_ready is non-empty, schedule() ends in the
\* error outcome SchedulerStuck instead of advancing currentCycle.
C18_SchedulerStuck == [][StuckGuard]_vars

\* The DFG as presented has every producer at a smaller index than its
\* consumer: deps[i] is a subset of 0 .. i-1 for every i.
InputInOrder == \A i \in Idx : \A j \in dfgDeps[i] : j < i

\* C19: when the DFG as presented is already in topological index order, the
\* canonicalizer returns with the statement sequence, every idx, dependencies
\* and usage_links as they were on entry.
C19_FastPathFrame ==
  (Canonicalized /\ InputInOrder) =>
    /\ stmts = [i \in Idx |-> i]
    /\ idx = [o \in Idx |-> o]
    /\ dependencies = [i \in Idx |-> SetToSeq(dfgDeps[i])]
    /\ usage_links = [i \in Idx |-> SetToSeq(UsesOf(dfgDeps)[i])]

\* The canonicalizer has returned on an ordered DFG whose Kahn order differs
\* from the order as presented: statement 1 consumes statement 0 and
\* statement 2 is a source.
C19_Witness ==
  /\ pc = "asap"
  /\ InputInOrder
  /\ dfgDeps[1] = {0}
  /\ dfgDeps[2] = {}

\* C20: whenever the list scheduler pops statement i in cycle c, the ledger
\* entry delayByCycle[c][i] it reads is 0; and in the final schedule
\* start_cycle[i] > start_cycle[j] for every j in dependencies[i].
C20_LedgerNeverRead ==
  /\ pc = "attempt" => DelayAt(delayByCycle, currentCycle, popped) = 0
  /\ pc = "done" =>
       \A i \in Idx : \A j \in SeqToSet(dependencies[i]) : StartAt(i) > StartAt(j)
====
